---- MODULE Spec2Model ----
(***************************************************************************)
(* Model of src/src/bentoml_cli/cloud.py: the `cloud` command group        *)
(* (login, current-context, list-context, update-current-context) and the  *)
(* context store the commands act on.                                      *)
(*                                                                         *)
(* Python values: an optional value is the empty tuple (None) or a         *)
(* one-element tuple; text that the code takes apart or glues together     *)
(* (the endpoint, URLs) is a sequence of one-character strings; opaque     *)
(* text (tokens, names, emails) is a TLA+ string.                          *)
(***************************************************************************)
EXTENDS Naturals, Sequences, FiniteSets

VARIABLES
    contexts,              \* CloudClientConfig.contexts (persisted store)
    current_context_name,  \* CloudClientConfig.current_context_name
    pc,                    \* position of the running command
    cmd,                   \* the command that is running or ran last
    endpoint,              \* login's local `endpoint`
    api_token,             \* login's local `api_token`
    cloud_context,         \* shared_options.cloud_context
    choice,                \* login's local `choice`
    port,                  \* state of the port reservation
    callback_server,       \* state of the AuthCallbackHttpServer
    baseURL,               \* login's local `baseURL`
    authURL,               \* login's local `authURL`
    code,                  \* what wait_indefinitely_for_code gave
    cloud_rest_client,     \* the RestApiClient, bound to (endpoint, token)
    user,                  \* what get_current_user gave
    org,                   \* what get_current_organization gave
    verr,                  \* status of a CloudRESTApiClientError raised
    trace,                 \* the collaborator calls of this run, in order
    out,                   \* what this run printed, in order
    result,                \* how the command function ended
    added,                 \* the Contexts this run passed to add_context
    store0,                \* the store when this run started
    input0,                \* the arguments this run was invoked with
    runs,                  \* commands invoked so far
    inserted               \* the names add_context got, by first insertion

vars == <<contexts, current_context_name, pc, cmd, endpoint, api_token,
          cloud_context, choice, port, callback_server, baseURL, authURL,
          code, cloud_rest_client, user, org, verr, trace, out, result,
          added, store0, input0, runs, inserted>>

sessionVars == <<endpoint, api_token, cloud_context, choice, port,
                 callback_server, baseURL, authURL, code, cloud_rest_client,
                 user, org, verr>>

storeVars == <<contexts, current_context_name, inserted>>

-----------------------------------------------------------------------------
(* Bounds and input sets *)

\* Commands invoked in one behaviour.
MaxRuns == 3

None == <<>>
Some(x) == <<x>>
Val(o) == o[1]

\* Endpoint strings: with and without a trailing "/".
Endpoints == { <<"x">>, <<"x", "/">> }
\* Token strings; "" is a string the command line can pass.
TokenStrings == { "", "t1" }
Emails == { "a@b.com", "c@d.com" }
ContextNames == { "staging" }
StatusCodes == { 401, 403, 500 }

default_context_name == "default"

\* Exception classes and their bases. KeyboardInterrupt and SystemExit derive
\* from BaseException directly; every other class derives from Exception.
ExcBase(cls) ==
    CASE cls = "BaseException" -> "BaseException"
      [] cls = "Exception" -> "BaseException"
      [] cls = "KeyboardInterrupt" -> "BaseException"
      [] cls = "SystemExit" -> "BaseException"
      [] cls = "ValueError" -> "Exception"
      [] cls = "OSError" -> "Exception"
      [] cls = "BentoMLException" -> "Exception"
      [] cls = "CLIException" -> "BentoMLException"
      [] cls = "CloudRESTApiClientError" -> "BentoMLException"
      [] cls = "NotFound" -> "BentoMLException"
      [] OTHER -> "Exception"

RECURSIVE IsSubclass(_, _)
IsSubclass(cls, base) ==
    IF cls = base THEN TRUE
    ELSE IF cls = "BaseException" THEN FALSE
    ELSE IsSubclass(ExcBase(cls), base)

-----------------------------------------------------------------------------
(* Text helpers *)

RECURSIVE rstrip(_, _)
rstrip(s, ch) ==
    IF s /= <<>> /\ s[Len(s)] = ch THEN rstrip(SubSeq(s, 1, Len(s) - 1), ch)
    ELSE s

ApiTokensPath == <<"/", "a", "p", "i", "_", "t", "o", "k", "e", "n", "s">>
ApiTokenPath == <<"/", "a", "p", "i", "-", "t", "o", "k", "e", "n">>
CallbackQuery == <<"?", "c", "a", "l", "l", "b", "a", "c", "k", "=">>

\* Results of the collaborators' calls.
Uncalled == [st |-> "uncalled", v |-> ""]
Value(x) == [st |-> "value", v |-> x]
Absent == [st |-> "absent", v |-> ""]
Threw(cls) == [st |-> "raised", v |-> cls]

Append2(s, a, b) == Append(Append(s, a), b)

Returned == [kind |-> "returned", exc |-> "", msg |-> ""]
Raised(cls, m) == [kind |-> "raised", exc |-> cls, msg |-> m]
Running == [kind |-> "running", exc |-> "", msg |-> ""]

Msg(k, a) == [kind |-> k, arg |-> a]

-----------------------------------------------------------------------------
Init ==
    /\ contexts = <<>>
    /\ current_context_name = default_context_name
    /\ pc = "idle"
    /\ cmd = "none"
    /\ endpoint = <<>>
    /\ api_token = None
    /\ cloud_context = None
    /\ choice = "none"
    /\ port = "none"
    /\ callback_server = "none"
    /\ baseURL = <<>>
    /\ authURL = <<>>
    /\ code = Uncalled
    /\ cloud_rest_client = None
    /\ user = Uncalled
    /\ org = Uncalled
    /\ verr = None
    /\ trace = <<>>
    /\ out = <<>>
    /\ result = Running
    /\ added = <<>>
    /\ store0 = [contexts |-> <<>>, current_context_name |-> default_context_name]
    /\ input0 = [endpoint |-> <<>>, api_token |-> None, cloud_context |-> None,
                 context_name |-> None]
    /\ runs = 0
    /\ inserted = <<>>

-----------------------------------------------------------------------------
(* The context store: bentoml._internal.cloud.config *)

IndexOf(ctxs, name) ==
    IF \E i \in 1..Len(ctxs) : ctxs[i].name = name
    THEN CHOOSE i \in 1..Len(ctxs) :
            /\ ctxs[i].name = name
            /\ \A j \in 1..(i - 1) : ctxs[j].name /= name
    ELSE 0

\* add_context that drops the context of that name and appends the new one.
add_context_MoveToEnd(ctxs, ctx) ==
    [contexts |-> Append(SelectSeq(ctxs, LAMBDA c : c.name /= ctx.name), ctx),
     current_context_name |-> ctx.name]

\* add_context that does not make the added context the current one.
add_context_KeepCurrent(ctxs, ctx) ==
    [contexts |-> IF IndexOf(ctxs, ctx.name) /= 0
                  THEN [ctxs EXCEPT ![IndexOf(ctxs, ctx.name)] = ctx]
                  ELSE Append(ctxs, ctx),
     current_context_name |-> default_context_name]

\* add_context: replace the context of that name in place, else append;
\* the added context becomes the current one.
add_context(ctxs, ctx) ==
    [contexts |-> IF IndexOf(ctxs, ctx.name) /= 0
                  THEN [ctxs EXCEPT ![IndexOf(ctxs, ctx.name)] = ctx]
                  ELSE Append(ctxs, ctx),
     current_context_name |-> ctx.name]

\* set_current_context moving the pointer before the lookup.
set_current_context_PointerFirst(ctxs, cur, name) ==
    [found |-> IndexOf(ctxs, name) /= 0, current_context_name |-> name]

\* set_current_context: the pointer moves to a name the store holds; any
\* other name is a not-found error and the pointer stays.
set_current_context(ctxs, cur, name) ==
    [found |-> IndexOf(ctxs, name) /= 0,
     current_context_name |-> IF IndexOf(ctxs, name) /= 0 THEN name ELSE cur]

\* The names listed last to first.
context_names_Reversed(ctxs) ==
    [i \in 1..Len(ctxs) |-> ctxs[Len(ctxs) + 1 - i].name]

\* The commands' reads of the store.
context_names(ctxs) == [i \in 1..Len(ctxs) |-> ctxs[i].name]

-----------------------------------------------------------------------------
(* login: src/src/bentoml_cli/cloud.py, lines 56-135 *)

\* The callback address the listener exposes, and urllib.parse.quote of it.
callback_url == <<"h", ":", "/", "/", "l", ":", "p", "/", "c">>

quote_char(c) == IF c = ":" THEN <<"%", "3", "A">> ELSE <<c>>

RECURSIVE quote(_)
quote(s) == IF s = <<>> THEN <<>> ELSE quote_char(Head(s)) \o quote(Tail(s))

\* `if api_token:` in place of `if not api_token:`.
NotApiToken_Inverted(tok) == ~(tok = None \/ tok = Some(""))

\* line 58: `not api_token`
NotApiToken(tok) == tok = None \/ tok = Some("")

\* `except ValueError` in place of `except Exception`.
WaitCaught_ValueErrorOnly(cls) == IsSubclass(cls, "ValueError")

\* line 94: `except Exception`
WaitCaught(cls) == IsSubclass(cls, "Exception")

\* `except Exception` in place of `except CloudRESTApiClientError`.
ValidationCaught_AnyException(cls) == IsSubclass(cls, "Exception")

\* line 129: `except CloudRESTApiClientError`
ValidationCaught(cls) == IsSubclass(cls, "CloudRESTApiClientError")

\* The handler without its 401 branch.
ErrorReport_No401Branch(status, ep) == Msg("http_status", <<status>>)

\* lines 130-135: what the handler prints for a status.
ErrorReport(status, ep) ==
    IF status = 401
    THEN Msg("bad_credentials_401", ep \o ApiTokenPath)
    ELSE Msg("http_status", <<status>>)

\* The override ignored.
ContextName_AlwaysDefault(cc) == default_context_name

\* lines 114-116: the name of the new Context.
ContextName(cc) == IF cc /= None THEN Val(cc) ELSE default_context_name

\* lines 113-120: the Context login builds.
NewContext(cc, ep, tok, u) ==
    [name |-> ContextName(cc), endpoint |-> ep, api_token |-> Val(tok),
     email |-> u.v]

\* What the blocking wait can raise: an error of the listener, or the
\* interruption of the process, the only way to cancel the wait.
WaitExceptions == { "OSError", "KeyboardInterrupt", "SystemExit" }

CanStart == pc \in {"idle", "done"} /\ runs < MaxRuns

\* A command starts: a fresh process, the persisted store as it was left.
Begin(c, ep, tok, cc, name) ==
    /\ CanStart
    /\ cmd' = c
    /\ runs' = runs + 1
    /\ endpoint' = ep
    /\ api_token' = tok
    /\ cloud_context' = cc
    /\ choice' = "none"
    /\ port' = "none"
    /\ callback_server' = "none"
    /\ baseURL' = <<>>
    /\ authURL' = <<>>
    /\ code' = Uncalled
    /\ cloud_rest_client' = None
    /\ user' = Uncalled
    /\ org' = Uncalled
    /\ verr' = None
    /\ added' = <<>>
    /\ store0' = [contexts |-> contexts,
                  current_context_name |-> current_context_name]
    /\ input0' = [endpoint |-> ep, api_token |-> tok, cloud_context |-> cc,
                  context_name |-> name]

\* lines 56-58: login is invoked; a truthy token skips the prompts.
LoginStart ==
    \E ep \in Endpoints, tok \in {None} \cup {Some(t) : t \in TokenStrings},
       cc \in {None} \cup {Some(n) : n \in ContextNames} :
        /\ Begin("login", ep, tok, cc, None)
        /\ pc' = IF NotApiToken(tok) THEN "select" ELSE "client"
        /\ trace' = <<>>
        /\ out' = <<>>
        /\ result' = Running
        /\ UNCHANGED storeVars

\* The branches of lines 70-100 left out: the choice is read and validation
\* starts with the token login was given.
SelectMethod_NoBranch ==
    /\ pc = "select"
    /\ \E c \in {"create", "paste"} :
        /\ choice' = c
        /\ pc' = "client"
    /\ trace' = Append(trace, "select")
    /\ UNCHANGED <<storeVars, cmd, endpoint, api_token, cloud_context, port,
                   callback_server, baseURL, authURL, code, cloud_rest_client,
                   user, org, verr, out, result, added, store0, input0, runs>>

\* lines 59-70, 97: the method-selection prompt.
SelectMethod ==
    /\ pc = "select"
    /\ \E c \in {"create", "paste"} :
        /\ choice' = c
        /\ pc' = IF c = "create" THEN "reserve"
                 ELSE IF c = "paste" THEN "paste" ELSE "client"
    /\ trace' = Append(trace, "select")
    /\ UNCHANGED <<storeVars, cmd, endpoint, api_token, cloud_context, port,
                   callback_server, baseURL, authURL, code, cloud_rest_client,
                   user, org, verr, out, result, added, store0, input0, runs>>

\* lines 71-73: the ExitStack is entered and reserve_free_port is entered on it.
EnterPortStack ==
    /\ pc = "reserve"
    /\ port' = "reserved"
    /\ pc' = "exit_stack"
    /\ trace' = Append(trace, "reserve_free_port")
    /\ UNCHANGED <<storeVars, cmd, endpoint, api_token, cloud_context, choice,
                   callback_server, baseURL, authURL, code, cloud_rest_client,
                   user, org, verr, out, result, added, store0, input0, runs>>

\* line 74: the `with` block ends, and the ExitStack releases the reservation.
ExitPortStack ==
    /\ pc = "exit_stack"
    /\ port' = "released"
    /\ pc' = "server"
    /\ trace' = Append(trace, "release_port")
    /\ UNCHANGED <<storeVars, cmd, endpoint, api_token, cloud_context, choice,
                   callback_server, baseURL, authURL, code, cloud_rest_client,
                   user, org, verr, out, result, added, store0, input0, runs>>

\* line 75: the listener is constructed on the port number.
ConstructServer ==
    /\ pc = "server"
    /\ callback_server' = "live"
    /\ pc' = "url"
    /\ trace' = Append(trace, "AuthCallbackHttpServer")
    /\ UNCHANGED <<storeVars, cmd, endpoint, api_token, cloud_context, choice,
                   port, baseURL, authURL, code, cloud_rest_client,
                   user, org, verr, out, result, added, store0, input0, runs>>

\* The confirmation prompt left out: the browser is opened at once.
BuildAuthURL_NoConfirm ==
    /\ pc = "url"
    /\ endpoint' = rstrip(endpoint, "/")
    /\ baseURL' = endpoint' \o ApiTokensPath
    /\ authURL' = baseURL' \o CallbackQuery \o quote(callback_url)
    /\ pc' = "open"
    /\ trace' = Append(trace, "build_url")
    /\ UNCHANGED <<storeVars, cmd, api_token, cloud_context, choice, port,
                   callback_server, code, cloud_rest_client,
                   user, org, verr, out, result, added, store0, input0, runs>>

\* lines 76-79: the endpoint loses its trailing slashes; the URLs are built.
BuildAuthURL ==
    /\ pc = "url"
    /\ endpoint' = rstrip(endpoint, "/")
    /\ baseURL' = endpoint' \o ApiTokensPath
    /\ authURL' = baseURL' \o CallbackQuery \o quote(callback_url)
    /\ pc' = "confirm"
    /\ trace' = Append(trace, "build_url")
    /\ UNCHANGED <<storeVars, cmd, api_token, cloud_context, choice, port,
                   callback_server, code, cloud_rest_client,
                   user, org, verr, out, result, added, store0, input0, runs>>

\* line 80: Confirm.ask; its answer is not used.
ConfirmAsk ==
    /\ pc = "confirm"
    /\ pc' = "open"
    /\ trace' = Append(trace, "Confirm.ask")
    /\ UNCHANGED <<storeVars, sessionVars, cmd, out, result, added, store0,
                   input0, runs>>

\* A failed browser open treated as fatal: login reports it and returns.
OpenBrowser_FailureFatal ==
    /\ pc = "open"
    /\ \/ /\ out' = Append(out, Msg("opened", authURL))
          /\ pc' = "wait"
          /\ result' = result
       \/ /\ out' = Append(out, Msg("open_failed", baseURL))
          /\ pc' = "done"
          /\ result' = Returned
    /\ trace' = Append(trace, "open_new_tab")
    /\ UNCHANGED <<storeVars, sessionVars, cmd, added, store0, input0, runs>>

\* lines 81-86: the browser-open attempt and its report.
OpenBrowser ==
    /\ pc = "open"
    /\ \E opened \in BOOLEAN :
        out' = Append(out, IF opened THEN Msg("opened", authURL)
                           ELSE Msg("open_failed", baseURL))
    /\ pc' = "wait"
    /\ trace' = Append(trace, "open_new_tab")
    /\ UNCHANGED <<storeVars, sessionVars, cmd, result, added, store0,
                   input0, runs>>

\* The handler going back to the wait in place of returning.
WaitFailed_Retry(cls) ==
    /\ out' = Append(out, Msg("acquire_error", <<>>))
    /\ result' = result
    /\ pc' = "wait"

\* The handler without its `return`: control falls through to validation.
WaitFailed_NoReturn(cls) ==
    /\ out' = Append(out, Msg("acquire_error", <<>>))
    /\ result' = result
    /\ pc' = "client"

\* lines 94-96: an exception of class cls leaves the try block of line 87.
WaitFailed(cls) ==
    IF WaitCaught(cls)
    THEN /\ out' = Append(out, Msg("acquire_error", <<>>))
         /\ result' = Returned
         /\ pc' = "done"
    ELSE /\ out' = out
         /\ result' = Raised(cls, "")
         /\ pc' = "done"

\* lines 87-96: the blocking wait for the code.
WaitForCode ==
    /\ pc = "wait"
    /\ trace' = Append(trace, "wait_indefinitely_for_code")
    /\ \/ \E c \in TokenStrings :
            /\ code' = Value(c)
            /\ api_token' = Some(c)
            /\ pc' = "client"
            /\ UNCHANGED <<out, result>>
       \/ /\ code' = Absent
          /\ WaitFailed("ValueError")
          /\ UNCHANGED api_token
       \/ \E cls \in WaitExceptions :
            /\ code' = Threw(cls)
            /\ WaitFailed(cls)
            /\ UNCHANGED api_token
    /\ UNCHANGED <<storeVars, cmd, endpoint, cloud_context, choice, port,
                   callback_server, baseURL, authURL, cloud_rest_client,
                   user, org, verr, added, store0, input0, runs>>

\* lines 98-100: the masked prompt; click.prompt returns a non-empty string.
PasteToken ==
    /\ pc = "paste"
    /\ \E t \in TokenStrings \ {""} : api_token' = Some(t)
    /\ pc' = "client"
    /\ trace' = Append(trace, "click.prompt")
    /\ UNCHANGED <<storeVars, cmd, endpoint, cloud_context, choice, port,
                   callback_server, baseURL, authURL, code, cloud_rest_client,
                   user, org, verr, out, result, added, store0, input0, runs>>

\* line 102: the validator client is bound to (endpoint, api_token).
ConstructClient ==
    /\ pc = "client"
    /\ cloud_rest_client' = Some([endpoint |-> endpoint, api_token |-> api_token])
    /\ pc' = "get_user"
    /\ trace' = Append(trace, "RestApiClient")
    /\ UNCHANGED <<storeVars, cmd, endpoint, api_token, cloud_context, choice,
                   port, callback_server, baseURL, authURL, code,
                   user, org, verr, out, result, added, store0, input0, runs>>

\* lines 129-135: an exception of class cls leaves the try block of line 101.
ValidationFailed(cls, status, text) ==
    IF ValidationCaught(cls)
    THEN /\ out' = Append(out, ErrorReport(status, endpoint))
         /\ result' = Returned
    ELSE /\ out' = out
         /\ result' = Raised(cls, text)

\* GetCurrentUser without the check of line 105: a null user goes on.
GetCurrentUser_NoNullCheck ==
    /\ pc = "get_user"
    /\ trace' = Append(trace, "get_current_user")
    /\ \/ \E e \in Emails :
            /\ user' = Value(e)
            /\ pc' = "get_org"
            /\ UNCHANGED <<verr, out, result>>
       \/ /\ user' = Absent
          /\ pc' = "get_org"
          /\ UNCHANGED <<verr, out, result>>
       \/ \E s \in StatusCodes :
            /\ user' = Threw("CloudRESTApiClientError")
            /\ verr' = Some(s)
            /\ ValidationFailed("CloudRESTApiClientError", s, "")
            /\ pc' = "done"
    /\ UNCHANGED <<storeVars, cmd, endpoint, api_token, cloud_context, choice,
                   port, callback_server, baseURL, authURL, code,
                   cloud_rest_client, org, added, store0, input0, runs>>

\* lines 103-106: get_current_user and the check of its result.
GetCurrentUser ==
    /\ pc = "get_user"
    /\ trace' = Append(trace, "get_current_user")
    /\ \/ \E e \in Emails :
            /\ user' = Value(e)
            /\ pc' = "get_org"
            /\ UNCHANGED <<verr, out, result>>
       \/ /\ user' = Absent
          /\ ValidationFailed("CLIException", 0, "current user is not found")
          /\ pc' = "done"
          /\ UNCHANGED verr
       \/ \E s \in StatusCodes :
            /\ user' = Threw("CloudRESTApiClientError")
            /\ verr' = Some(s)
            /\ ValidationFailed("CloudRESTApiClientError", s, "")
            /\ pc' = "done"
    /\ UNCHANGED <<storeVars, cmd, endpoint, api_token, cloud_context, choice,
                   port, callback_server, baseURL, authURL, code,
                   cloud_rest_client, org, added, store0, input0, runs>>

\* GetCurrentOrganization without the check of line 110: a null
\* organization goes on to add_context.
GetCurrentOrganization_NoNullCheck ==
    /\ pc = "get_org"
    /\ trace' = Append(trace, "get_current_organization")
    /\ \/ /\ org' = Value("org")
          /\ pc' = "add"
          /\ UNCHANGED <<verr, out, result>>
       \/ /\ org' = Absent
          /\ pc' = "add"
          /\ UNCHANGED <<verr, out, result>>
       \/ \E s \in StatusCodes :
            /\ org' = Threw("CloudRESTApiClientError")
            /\ verr' = Some(s)
            /\ ValidationFailed("CloudRESTApiClientError", s, "")
            /\ pc' = "done"
    /\ UNCHANGED <<storeVars, cmd, endpoint, api_token, cloud_context, choice,
                   port, callback_server, baseURL, authURL, code,
                   cloud_rest_client, user, added, store0, input0, runs>>

\* lines 108-111: get_current_organization and the check of its result.
GetCurrentOrganization ==
    /\ pc = "get_org"
    /\ trace' = Append(trace, "get_current_organization")
    /\ \/ /\ org' = Value("org")
          /\ pc' = "add"
          /\ UNCHANGED <<verr, out, result>>
       \/ /\ org' = Absent
          /\ ValidationFailed("CLIException", 0,
                              "current organization is not found")
          /\ pc' = "done"
          /\ UNCHANGED verr
       \/ \E s \in StatusCodes :
            /\ org' = Threw("CloudRESTApiClientError")
            /\ verr' = Some(s)
            /\ ValidationFailed("CloudRESTApiClientError", s, "")
            /\ pc' = "done"
    /\ UNCHANGED <<storeVars, cmd, endpoint, api_token, cloud_context, choice,
                   port, callback_server, baseURL, authURL, code,
                   cloud_rest_client, user, added, store0, input0, runs>>

\* lines 113-128: the Context is built, added to the store and reported.
AddContext ==
    /\ pc = "add"
    /\ LET ctx == NewContext(cloud_context, endpoint, api_token, user) IN
        /\ contexts' = add_context(contexts, ctx).contexts
        /\ current_context_name' =
             add_context(contexts, ctx).current_context_name
        /\ added' = Append(added, ctx)
        /\ inserted' = IF \E i \in 1..Len(inserted) : inserted[i] = ctx.name
                       THEN inserted
                       ELSE Append(inserted, ctx.name)
        /\ out' = Append2(out, Msg("configured", <<ctx.name>>),
                          Msg("logged_in", <<user.v, endpoint>>))
    /\ trace' = Append(trace, "add_context")
    /\ result' = Returned
    /\ pc' = "done"
    /\ UNCHANGED <<sessionVars, cmd, store0, input0, runs>>

-----------------------------------------------------------------------------
(* The context commands: lines 138-160 *)

\* lines 138-145: current-context.
current_context ==
    /\ Begin("current_context", <<>>, None, None, None)
    /\ trace' = <<"get_current_context">>
    /\ IF IndexOf(contexts, current_context_name) /= 0
       THEN /\ out' = <<Msg("json", <<contexts[IndexOf(contexts,
                                            current_context_name)]>>)>>
            /\ result' = Returned
       ELSE /\ out' = <<>>
            /\ result' = Raised("NotFound", "context not found")
    /\ pc' = "done"
    /\ UNCHANGED storeVars

\* lines 148-152: list-context.
list_context ==
    /\ Begin("list_context", <<>>, None, None, None)
    /\ trace' = <<"get_config">>
    /\ out' = <<Msg("json", context_names(contexts))>>
    /\ result' = Returned
    /\ pc' = "done"
    /\ UNCHANGED storeVars

\* lines 155-160: update-current-context.
update_current_context ==
    \E context_name \in ContextNames \cup {default_context_name, "nope"} :
        /\ Begin("update_current_context", <<>>, None, None, Some(context_name))
        /\ trace' = <<"set_current_context">>
        /\ current_context_name' =
             set_current_context(contexts, current_context_name,
                                 context_name).current_context_name
        /\ IF set_current_context(contexts, current_context_name,
                                  context_name).found
           THEN /\ out' = <<Msg("switched",
                                <<contexts[IndexOf(contexts, context_name)].name>>)>>
                /\ result' = Returned
           ELSE /\ out' = <<>>
                /\ result' = Raised("NotFound", "context not found")
        /\ pc' = "done"
        /\ UNCHANGED <<contexts, inserted>>

-----------------------------------------------------------------------------
Next ==
    \/ LoginStart
    \/ SelectMethod
    \/ EnterPortStack
    \/ ExitPortStack
    \/ ConstructServer
    \/ BuildAuthURL
    \/ ConfirmAsk
    \/ OpenBrowser
    \/ WaitForCode
    \/ PasteToken
    \/ ConstructClient
    \/ GetCurrentUser
    \/ GetCurrentOrganization
    \/ AddContext
    \/ current_context
    \/ list_context
    \/ update_current_context

Spec == Init /\ [][Next]_vars

-----------------------------------------------------------------------------
(* Properties of login and of the context commands *)

Called(e) == \E i \in 1..Len(trace) : trace[i] = e

Count(e) == Cardinality({i \in 1..Len(trace) : trace[i] = e})

Printed(k) == \E i \in 1..Len(out) : out[i].kind = k

LastPrinted(k) == out /= <<>> /\ out[Len(out)].kind = k

StoreUntouched ==
    /\ contexts = store0.contexts
    /\ current_context_name = store0.current_context_name

\* The run of login has failed: the listener gave no code or raised, the
\* validator raised a status, or it returned a null user or organization.
LoginFailure ==
    /\ cmd = "login"
    /\ \/ code.st \in {"absent", "raised"}
       \/ verr /= None
       \/ user.st = "absent"
       \/ org.st = "absent"

\* C1: a run of login that ends in failure (absent code, exception while
\* waiting, validator status error, null user, null organization) never calls
\* add_context, and the store's contexts and current_context_name are what
\* they were when the run started.
C1_FailedLoginLeavesStore ==
    LoginFailure =>
        /\ pc = "done"
        /\ ~Called("add_context")
        /\ added = <<>>
        /\ StoreUntouched

C1_Witness ==
    /\ LoginFailure
    /\ pc = "done"
    /\ org.st = "absent"
    /\ Len(store0.contexts) = 2
    /\ input0.cloud_context /= None

\* C2: add_context is called only after get_current_user and then
\* get_current_organization were called on a validator bound to the
\* (endpoint, api_token) of the run and both returned a non-null result; when
\* get_current_user returns null, get_current_organization is never called
\* and no Context reaches add_context.
C2_AddOnlyAfterValidation ==
    cmd = "login" =>
        /\ (pc = "add" \/ Called("add_context") \/ added /= <<>>) =>
            /\ \E i, j \in 1..Len(trace) :
                /\ i < j
                /\ trace[i] = "get_current_user"
                /\ trace[j] = "get_current_organization"
                /\ \A k \in 1..Len(trace) :
                    trace[k] = "add_context" => j < k
                /\ \E c \in 1..(i - 1) : trace[c] = "RestApiClient"
            /\ user.st = "value"
            /\ org.st = "value"
            /\ cloud_rest_client =
                 Some([endpoint |-> endpoint, api_token |-> api_token])
            /\ \A n \in 1..Len(added) :
                /\ added[n].endpoint = Val(cloud_rest_client).endpoint
                /\ Some(added[n].api_token) = Val(cloud_rest_client).api_token
        /\ user.st = "absent" =>
            /\ org.st = "uncalled"
            /\ ~Called("get_current_organization")
            /\ ~Called("add_context")
            /\ added = <<>>

C2_Witness ==
    /\ cmd = "login"
    /\ pc = "done"
    /\ Called("add_context")
    /\ choice = "create"
    /\ input0.endpoint = <<"x", "/">>

\* C3: on the browser (create) path, however login ends, the callback
\* listener has been torn down and the reserved port has been released by
\* the time login returns.
C3_ListenerAndPortReleased ==
    (cmd = "login" /\ pc = "done" /\ choice = "create") =>
        /\ callback_server /= "live"
        /\ port /= "reserved"

\* C4: on the browser (create) path the port reservation is held for the
\* listener's lifetime: the port is still reserved when the listener is
\* constructed on it and while login waits for the code.
C4_PortHeldForListener ==
    (cmd = "login" /\ choice = "create" /\ callback_server = "live"
        /\ pc \in {"url", "confirm", "open", "wait"}) =>
        port = "reserved"

\* C5: when validation succeeds (non-null user and organization), login calls
\* add_context exactly once, with a Context named by the context-name
\* override if one was given and by default_context_name otherwise, holding
\* the endpoint and api_token the validator was bound to and the validated
\* user's email; after the run that Context is the current context.
C5_SuccessAddsContext ==
    (cmd = "login" /\ pc = "done" /\ user.st = "value" /\ org.st = "value") =>
        /\ Count("add_context") = 1
        /\ Len(added) = 1
        /\ added[1].name = IF input0.cloud_context = None
                           THEN default_context_name
                           ELSE input0.cloud_context[1]
        /\ added[1].endpoint = Val(cloud_rest_client).endpoint
        /\ Some(added[1].api_token) = Val(cloud_rest_client).api_token
        /\ added[1].email = user.v
        /\ current_context_name = added[1].name
        /\ \E i \in 1..Len(contexts) :
            /\ contexts[i] = added[1]
            /\ \A j \in 1..Len(contexts) :
                contexts[j].name = current_context_name => j = i

C5_Witness ==
    /\ cmd = "login"
    /\ pc = "done"
    /\ Len(added) = 1
    /\ input0.cloud_context = Some("staging")
    /\ Len(store0.contexts) = 2
    /\ store0.current_context_name = default_context_name
    /\ store0.contexts[1].name = "staging"
    /\ store0.contexts[1] /= added[1]

SkipsToValidation ==
    /\ pc \in {"client", "get_user", "get_org", "add", "done"}
    /\ ~Called("select")
    /\ ~Called("reserve_free_port")
    /\ ~Called("AuthCallbackHttpServer")
    /\ ~Called("open_new_tab")
    /\ ~Called("click.prompt")
    /\ port = "none"
    /\ callback_server = "none"
    /\ trace /= <<>> => trace[1] = "RestApiClient"
    /\ cloud_rest_client /= None =>
        Val(cloud_rest_client).api_token = input0.api_token

\* C6 as stated: whenever an api_token is supplied to login (it is not None),
\* the run goes from the start directly to validation: no method prompt, no
\* port, no listener, no browser, no token prompt, and the validator is bound
\* to the supplied token.
C6_SuppliedTokenSkips ==
    (cmd = "login" /\ input0.api_token /= None) => SkipsToValidation

\* C6, amended: whenever a non-empty api_token is supplied to login, the run
\* goes from the start directly to validation (as above).
C6_NonEmptyTokenSkips ==
    (cmd = "login" /\ input0.api_token /= None /\ input0.api_token /= Some(""))
        => SkipsToValidation

C6_Witness ==
    /\ cmd = "login"
    /\ input0.api_token = Some("t1")
    /\ pc = "done"
    /\ Called("add_context")

\* C7: when the validator raises an error carrying a status code, login
\* reports "bad credentials" with the endpoint followed by "/api-token" for
\* status 401 and the raw status code for every other status; in both cases
\* login returns and no Context is added.
C7_StatusReport ==
    (cmd = "login" /\ verr /= None) =>
        /\ pc = "done"
        /\ result = Returned
        /\ added = <<>>
        /\ ~Called("add_context")
        /\ StoreUntouched
        /\ out /= <<>>
        /\ IF Val(verr) = 401
           THEN /\ out[Len(out)].kind = "bad_credentials_401"
                /\ out[Len(out)].arg =
                     Val(cloud_rest_client).endpoint \o ApiTokenPath
           ELSE /\ out[Len(out)].kind = "http_status"
                /\ out[Len(out)].arg = <<Val(verr)>>

C7_Witness ==
    /\ cmd = "login"
    /\ verr = Some(401)
    /\ org.st = "raised"
    /\ choice = "create"
    /\ input0.endpoint = <<"x", "/">>
    /\ store0.contexts /= <<>>

\* C8: when the validator returns a null user, or a non-null user and a null
\* organization, login fails with the configuration-level error ("current
\* user is not found" / "current organization is not found"), which is not
\* one of the authentication-failure outcomes (the HTTP 401 and HTTP status
\* reports), and nothing is persisted.
C8_NullIdentityIsConfigError ==
    (cmd = "login" /\ (user.st = "absent" \/ org.st = "absent")) =>
        /\ pc = "done"
        /\ result.kind = "raised"
        /\ result.exc = "CLIException"
        /\ result.msg = IF user.st = "absent"
                        THEN "current user is not found"
                        ELSE "current organization is not found"
        /\ user.st = "absent" \/ user.st = "value"
        /\ ~Printed("bad_credentials_401")
        /\ ~Printed("http_status")
        /\ verr = None
        /\ added = <<>>
        /\ StoreUntouched

C8_Witness ==
    /\ cmd = "login"
    /\ pc = "done"
    /\ user.st = "absent"
    /\ choice = "paste"
    /\ store0.contexts /= <<>>

UnknownName ==
    /\ cmd = "update_current_context"
    /\ \A i \in 1..Len(store0.contexts) :
        Some(store0.contexts[i].name) /= input0.context_name

\* C9 as stated: every failure of the taxonomy (absent code, exception while
\* waiting, HTTP 401, other status, null user or organization, unknown
\* context name) ends with the command emitting a message and returning
\* normally; no exception escapes the command function.
C9_NoExceptionEscapes ==
    (pc = "done" /\ (LoginFailure \/ UnknownName)) =>
        /\ result = Returned
        /\ out /= <<>>

\* The wait was ended by an exception that does not derive from Exception.
Interrupted ==
    /\ code.st = "raised"
    /\ code.v \in {"KeyboardInterrupt", "SystemExit"}

\* The command printed no message for a failure: nothing at all, or only
\* the report of the browser-open attempt that came before.
NoFailureMessage ==
    \A i \in 1..Len(out) : out[i].kind \in {"opened", "open_failed"}

\* C9, amended: an absent code, an exception derived from Exception raised
\* while waiting, and a validator status error end with login printing a
\* message for the failure and returning normally. An exception not derived
\* from Exception raised while waiting (KeyboardInterrupt, SystemExit), a
\* null user or organization (CLIException) and an unknown context name (the
\* store's not-found error, from update-current-context) are not handled by
\* the command function: it prints no message for the failure, the
\* exception leaves it, and the store is unchanged.
C9_HandledOrRaised ==
    /\ (pc = "done" /\ cmd = "login" /\ ~Interrupted
            /\ (code.st \in {"absent", "raised"} \/ verr /= None)) =>
        /\ result = Returned
        /\ IF verr = None THEN LastPrinted("acquire_error")
           ELSE IF verr = Some(401) THEN LastPrinted("bad_credentials_401")
           ELSE LastPrinted("http_status")
    /\ (pc = "done" /\ cmd = "login" /\ Interrupted) =>
        /\ result.kind = "raised"
        /\ result.exc = code.v
        /\ NoFailureMessage
        /\ StoreUntouched
    /\ (pc = "done" /\ cmd = "login"
            /\ (user.st = "absent" \/ org.st = "absent")) =>
        /\ result.kind = "raised"
        /\ result.exc = "CLIException"
        /\ NoFailureMessage
        /\ StoreUntouched
    /\ (pc = "done" /\ UnknownName) =>
        /\ result.kind = "raised"
        /\ result.exc = "NotFound"
        /\ out = <<>>
        /\ StoreUntouched

C9_Witness ==
    /\ pc = "done"
    /\ cmd = "login"
    /\ choice = "create"
    /\ org.st = "absent"
    /\ Printed("open_failed")
    /\ store0.contexts /= <<>>

\* C10 as stated: on the browser path, when the listener's wait returns an
\* absent code or raises any exception, an error is reported, login returns
\* at once, the validator is never constructed or called, and no Context is
\* created.
C10_WaitFailureAborts ==
    (cmd = "login" /\ code.st \in {"absent", "raised"}) =>
        /\ choice = "create"
        /\ pc = "done"
        /\ result = Returned
        /\ LastPrinted("acquire_error")
        /\ trace[Len(trace)] = "wait_indefinitely_for_code"
        /\ cloud_rest_client = None
        /\ ~Called("RestApiClient")
        /\ ~Called("get_current_user")
        /\ ~Called("get_current_organization")
        /\ ~Called("add_context")
        /\ added = <<>>
        /\ StoreUntouched

\* C10, amended: on the browser path, when the listener's wait returns an
\* absent code or raises an exception derived from Exception, an error is
\* reported and login returns at once; when it raises an exception not
\* derived from Exception (KeyboardInterrupt, SystemExit), no error is
\* reported and the exception leaves login. In every one of these cases
\* the validator is never constructed or called, no Context is created and
\* the store is unchanged.
C10_WaitFailureAbortsOrEscapes ==
    (cmd = "login" /\ code.st \in {"absent", "raised"}) =>
        /\ choice = "create"
        /\ pc = "done"
        /\ IF Interrupted
           THEN /\ result.kind = "raised"
                /\ result.exc = code.v
                /\ ~Printed("acquire_error")
           ELSE /\ result = Returned
                /\ LastPrinted("acquire_error")
        /\ trace[Len(trace)] = "wait_indefinitely_for_code"
        /\ cloud_rest_client = None
        /\ ~Called("RestApiClient")
        /\ ~Called("get_current_user")
        /\ ~Called("get_current_organization")
        /\ ~Called("add_context")
        /\ added = <<>>
        /\ StoreUntouched

C10_Witness ==
    /\ cmd = "login"
    /\ code = Threw("OSError")
    /\ pc = "done"
    /\ result = Returned
    /\ store0.contexts /= <<>>

Validating == pc \in {"client", "get_user", "get_org", "add", "done"}

\* C11: on the browser path a failed browser-open attempt is not fatal:
\* whether the attempt reports success or failure, login goes on to wait on
\* the listener for the code, and a non-absent code becomes the api_token
\* and leads to validation on a client bound to it.
C11_BrowserFailureNonFatal ==
    cmd = "login" =>
        /\ Called("open_new_tab") =>
            /\ Printed("opened") \/ Printed("open_failed")
            /\ pc = "wait" \/ Called("wait_indefinitely_for_code")
        /\ code.st = "value" =>
            /\ Called("open_new_tab")
            /\ api_token = Some(code.v)
            /\ Validating
            /\ pc /= "client" =>
                cloud_rest_client =
                    Some([endpoint |-> endpoint, api_token |-> Some(code.v)])

C11_Witness ==
    /\ cmd = "login"
    /\ Printed("open_failed")
    /\ code = Value("t1")
    /\ pc = "done"
    /\ Called("add_context")

\* C12: no retries: in one run of login the method-selection prompt, the
\* listener's wait, get_current_user, get_current_organization and
\* add_context are each invoked at most once, and every failure ends the
\* run: once a failure has happened nothing more is called.
C12_NoRetries ==
    cmd = "login" =>
        /\ Count("select") <= 1
        /\ Count("wait_indefinitely_for_code") <= 1
        /\ Count("get_current_user") <= 1
        /\ Count("get_current_organization") <= 1
        /\ Count("add_context") <= 1
        /\ LoginFailure =>
            /\ pc = "done"
            /\ trace[Len(trace)] \in
                 {"wait_indefinitely_for_code", "get_current_user",
                  "get_current_organization"}
            /\ code.st \in {"absent", "raised"} =>
                 trace[Len(trace)] = "wait_indefinitely_for_code"
            /\ (user.st \in {"absent", "raised"}) =>
                 trace[Len(trace)] = "get_current_user"
            /\ (org.st \in {"absent", "raised"}) =>
                 trace[Len(trace)] = "get_current_organization"

C12_Witness ==
    /\ cmd = "login"
    /\ pc = "done"
    /\ code.st = "absent"
    /\ runs = 3
    /\ Count("wait_indefinitely_for_code") = 1

AllNames == ContextNames \cup {default_context_name}

\* C13: list-context prints exactly the names of the store's contexts, in
\* store order, unsorted, unfiltered and with no name dropped, and nothing
\* it prints is the api_token or the email of a context.
C13_ListContextNamesInOrder ==
    (cmd = "list_context" /\ pc = "done") =>
        /\ result = Returned
        /\ Len(out) = 1
        /\ out[1].kind = "json"
        /\ Len(out[1].arg) = Len(contexts)
        /\ \A i \in 1..Len(contexts) :
            /\ out[1].arg[i] = contexts[i].name
            /\ out[1].arg[i] \in AllNames
            /\ \A j \in 1..Len(contexts) :
                /\ out[1].arg[i] /= contexts[j].api_token
                /\ out[1].arg[i] /= contexts[j].email
        /\ StoreUntouched

C13_Witness ==
    /\ cmd = "list_context"
    /\ pc = "done"
    /\ out[1].arg = <<"staging", "default">>

\* C14: update-current-context with a name no stored context has fails with
\* the not-found error and leaves the contexts and the current context as
\* they were; with a name that exists, the current context becomes the
\* context of that name and no context record is modified.
C14_SwitchContext ==
    (cmd = "update_current_context" /\ pc = "done") =>
        /\ contexts = store0.contexts
        /\ IF UnknownName
           THEN /\ result.kind = "raised"
                /\ result.exc = "NotFound"
                /\ current_context_name = store0.current_context_name
           ELSE /\ result = Returned
                /\ Some(current_context_name) = input0.context_name
                /\ \E i \in 1..Len(contexts) :
                    contexts[i].name = current_context_name
                /\ out = <<Msg("switched", input0.context_name)>>

C14_Witness ==
    /\ cmd = "update_current_context"
    /\ pc = "done"
    /\ ~UnknownName
    /\ Len(contexts) = 2
    /\ store0.current_context_name /= current_context_name

\* C15: after any sequence of add_context calls (of successful logins with
\* any context names) the list of context names holds each distinct name
\* once, in the order of first insertion: adding a name the store holds
\* replaces that context at its position, adding a new name appends it.
C15_NamesByFirstInsertion ==
    /\ context_names(contexts) = inserted
    /\ \A i, j \in 1..Len(contexts) :
        contexts[i].name = contexts[j].name => i = j
    /\ (cmd = "login" /\ pc = "done" /\ added /= <<>>) =>
        LET old == store0.contexts
            at == {i \in 1..Len(old) : old[i].name = added[1].name}
        IN IF at /= {}
           THEN /\ Len(contexts) = Len(old)
                /\ \A i \in 1..Len(old) :
                    contexts[i] = IF i \in at THEN added[1] ELSE old[i]
           ELSE /\ Len(contexts) = Len(old) + 1
                /\ contexts[Len(contexts)] = added[1]
                /\ \A i \in 1..Len(old) : contexts[i] = old[i]

C15_Witness ==
    /\ cmd = "login"
    /\ pc = "done"
    /\ added /= <<>>
    /\ Len(store0.contexts) = 2
    /\ store0.contexts[1].name = added[1].name
    /\ store0.contexts[1] /= added[1]
    /\ contexts[1] = added[1]

\* C16: after any sequence of login runs and update-current-context calls,
\* successful or failed, from an empty store: whenever the store is not
\* empty, current_context_name is the name of exactly one stored context,
\* and current-context (get_current_context) does not fail.
C16_CurrentNamesOneContext ==
    /\ contexts /= <<>> =>
        Cardinality({i \in 1..Len(contexts) :
                        contexts[i].name = current_context_name}) = 1
    /\ (cmd = "current_context" /\ pc = "done" /\ contexts /= <<>>) =>
        /\ result = Returned
        /\ Len(out) = 1
        /\ out[1].arg[1].name = current_context_name

C16_Witness ==
    /\ cmd = "current_context"
    /\ pc = "done"
    /\ Len(contexts) = 2
    /\ current_context_name = contexts[2].name
    /\ result = Returned

\* C17: the URL in the 401 "bad credentials" message is the token-creation
\* page URL of the endpoint: the URL the browser path uses as the base of
\* the authorization URL (before the callback parameter) for that endpoint.
C17_BadCredentialsUrlIsTokenPage ==
    (cmd = "login" /\ verr = Some(401) /\ pc = "done") =>
        /\ LastPrinted("bad_credentials_401")
        /\ out[Len(out)].arg = rstrip(input0.endpoint, "/") \o ApiTokensPath
        /\ choice = "create" => out[Len(out)].arg = baseURL

Pos(e) == CHOOSE i \in 1..Len(trace) : trace[i] = e

BrowserEventsInOrder(events) ==
    \A a, b \in 1..Len(events) :
        /\ Count(events[a]) <= 1
        /\ (a < b /\ Called(events[b])) =>
            /\ Called(events[a])
            /\ Pos(events[a]) < Pos(events[b])

\* C18: on the browser path the events of a run come in this order: the port
\* is reserved, the listener is constructed on it, the authorization URL is
\* built from the listener's callback URL, the user is asked to confirm, the
\* browser-open attempt is made once and only after the confirm prompt has
\* returned, and only then does login wait on the listener for the code.
C18_BrowserPathOrder ==
    (cmd = "login" /\ choice = "create") =>
        /\ BrowserEventsInOrder(<<"reserve_free_port", "AuthCallbackHttpServer",
                                  "build_url", "Confirm.ask", "open_new_tab",
                                  "wait_indefinitely_for_code">>)
        /\ Called("build_url") =>
            /\ baseURL = rstrip(input0.endpoint, "/") \o ApiTokensPath
            /\ authURL = baseURL \o CallbackQuery \o
                 <<"h", "%", "3", "A", "/", "/", "l", "%", "3", "A", "p",
                   "/", "c">>
        /\ pc = "wait" => Count("open_new_tab") = 1
        /\ (pc \in {"reserve", "exit_stack", "server", "url", "confirm",
                    "open"}) => ~Called("wait_indefinitely_for_code")

C18_Witness ==
    /\ cmd = "login"
    /\ choice = "create"
    /\ Called("wait_indefinitely_for_code")
    /\ input0.endpoint = <<"x", "/">>
    /\ pc = "done"

Before(a, b) == (Called(a) /\ Called(b)) => Pos(a) < Pos(b)

\* The order of a run's states, and the token the validator is bound to.
StateOrder ==
    /\ Called("select") => trace[1] = "select"
    /\ (Called("reserve_free_port") \/ Called("click.prompt")) =>
        Called("select")
    /\ ~(Called("reserve_free_port") /\ Called("click.prompt"))
    /\ Before("select", "RestApiClient")
    /\ Before("wait_indefinitely_for_code", "RestApiClient")
    /\ Before("click.prompt", "RestApiClient")
    /\ Before("RestApiClient", "get_current_user")
    /\ Before("get_current_user", "get_current_organization")
    /\ Before("get_current_organization", "add_context")
    /\ Count("RestApiClient") <= 1
    /\ Called("add_context") => trace[Len(trace)] = "add_context"
    /\ (Called("RestApiClient") /\ Called("select")) =>
        (Called("wait_indefinitely_for_code") \/ Called("click.prompt"))
    /\ (pc /= "select" /\ ~Called("select")) => input0.api_token /= None
    /\ pc = "done" => result.kind \in {"returned", "raised"}
    /\ cloud_rest_client /= None =>
        /\ Called("RestApiClient")
        /\ Val(cloud_rest_client).api_token /= None
        /\ \/ /\ ~Called("select")
              /\ Val(cloud_rest_client).api_token = input0.api_token
           \/ /\ choice = "create"
              /\ code.st = "value"
              /\ Val(cloud_rest_client).api_token = Some(code.v)
           \/ /\ choice = "paste"
              /\ Called("click.prompt")
              /\ Val(cloud_rest_client).api_token /= Some("")

\* C19 as stated: every run of login goes through ChoosingMethod, one of the
\* two awaiting states, ValidatingToken and then Success or Failed (the
\* first two skipped only when a token was supplied), and the validator is
\* never bound to an absent api_token.
C19_EveryRunValidates ==
    cmd = "login" =>
        /\ StateOrder
        /\ pc = "done" => Called("RestApiClient")

\* C19, amended: the states of a run come in that order and the validator
\* is never bound to an absent api_token, but a run whose browser wait gives
\* no code or raises ends Failed from AwaitingBrowserCallback without
\* entering ValidatingToken; every other run enters it.
C19_StateOrderOrWaitFailure ==
    cmd = "login" =>
        /\ StateOrder
        /\ pc = "done" =>
            (Called("RestApiClient") <=> code.st \notin {"absent", "raised"})

C19_Witness ==
    /\ cmd = "login"
    /\ pc = "done"
    /\ choice = "paste"
    /\ Called("add_context")
    /\ input0.api_token = Some("")

====
